---- MODULE Spec2Model ----
(***************************************************************************)
(* A model of the census query agent backend:                              *)
(*   - VisualizationTool.upload_to_gcs ("publish") and its tool wrapper,   *)
(*   - VisualizationTool.plot_from_rows / plot_from_dataframe ("render"),  *)
(*   - the POST /chat and DELETE /session/{id} handlers of app.py.         *)
(* Text is a sequence of one-character strings, bytes are 0..255.          *)
(***************************************************************************)
EXTENDS Integers, Sequences, FiniteSets, TLC

VARIABLES
    \* ---- publish (upload_to_gcs) ----
    pc,              \* position of the running upload_to_gcs call
    via,             \* "tool" (upload_chart_to_gcs) or "direct"
    png_base64,      \* the png_base64 argument / local
    bucket_name,     \* the bucket_name argument
    blob_arg,        \* the blob_name argument as the caller gave it
    blob_name,       \* the local blob_name (None until resolved)
    png_bytes,       \* the decoded bytes
    url,             \* the local url
    result,          \* the returned dict, or None
    exc,             \* the exception that left the call, or "none"
    gcs,             \* the object store: a set of stored objects
    writes,          \* upload_from_string calls made by the running call
    signs,           \* generate_signed_url calls made by the running call
    signed_ok,       \* whether generate_signed_url returned a URL in this call
    ncalls,          \* calls started so far
    \* ---- the data-URI / decode relation ----
    d_text,          \* a Base64 text T
    d_raw,           \* outcome of decoding T
    d_uri,           \* outcome of decoding "data:image/png;base64," + T
    \* ---- render (plot_from_rows / plot_from_dataframe) ----
    rpc,             \* position of the running render call
    rargs,           \* its arguments
    rdf,             \* its local df: a sequence of rows
    rfig,            \* its local fig: a figure, 0 before plt.subplots
    rdrawn,          \* what the plotting strategy was invoked with
    rret,            \* the returned dict
    figs,            \* pyplot's registry: the figures that are open
    gcf,             \* pyplot's current figure, 0 if there is none
    nextfig,         \* the next figure to allocate
    closed_foreign,  \* a call closed a figure that another call created
    nrender,         \* render calls started so far
    \* ---- HTTP layer (app.py) ----
    sessions,        \* session_service: session id -> session
    hpc,             \* position of each request
    hreq,            \* each request: its kind, session id and message
    hexisting,       \* each chat request's local `existing`
    hseen,           \* the session each chat request's agent run started on
    epoch,           \* per session id, the number of completed deletes
    fresh_since,     \* per session id, sessions created since the last delete
    recreated,       \* a create_session was called for a session that existed
    nreq             \* requests started so far

pubVars == <<pc, via, png_base64, bucket_name, blob_arg, blob_name, png_bytes,
             url, result, exc, gcs, writes, signs, signed_ok, ncalls>>
decVars == <<d_text, d_raw, d_uri>>
renVars == <<rpc, rargs, rdf, rfig, rdrawn, rret, figs, gcf, nextfig, closed_foreign,
             nrender>>
httpVars == <<sessions, hpc, hreq, hexisting, hseen, epoch, fresh_since, recreated,
              nreq>>
vars == <<pubVars, decVars, renVars, httpVars>>

\* a step of one component leaves the other components as they are
PubFrame == UNCHANGED <<decVars, renVars, httpVars>>
DecFrame == UNCHANGED <<pubVars, renVars, httpVars>>
RenFrame == UNCHANGED <<pubVars, decVars, httpVars>>
HttpFrame == UNCHANGED <<pubVars, decVars, renVars>>

\* Python's None, for an optional text and for an optional dict
None == <<"None">>
NoDict == [none |-> TRUE]

(***************************************************************************)
(* Bounds of the model.                                                    *)
(***************************************************************************)
MaxCalls == 2        \* publish calls in one behaviour
MaxLen == 3          \* length of the Base64 texts of the decode relation
MaxRows == 3         \* rows of a render call's row set
MaxRenders == 2      \* render calls in one behaviour
MaxRequests == 3     \* HTTP requests in one behaviour

(***************************************************************************)
(* Text helpers.                                                           *)
(***************************************************************************)
RECURSIVE IndexOf(_, _, _)
\* str.find: the first position >= i of character c in s, 0 if there is none
IndexOf(s, c, i) ==
    IF i > Len(s) THEN 0
    ELSE IF s[i] = c THEN i
    ELSE IndexOf(s, c, i + 1)

Contains(s, c) == IndexOf(s, c, 1) # 0

IsSpace(c) == c \in {" ", "\n", "\t"}

RECURSIVE LStrip(_)
LStrip(s) == IF s # <<>> /\ IsSpace(Head(s)) THEN LStrip(Tail(s)) ELSE s

RECURSIVE RStrip(_)
RStrip(s) ==
    IF s # <<>> /\ IsSpace(s[Len(s)]) THEN RStrip(SubSeq(s, 1, Len(s) - 1)) ELSE s

\* str.strip()
Strip(s) == RStrip(LStrip(s))

\* s.split(",", 1)[1] for an s that holds a comma
AfterFirstComma(s) == SubSeq(s, IndexOf(s, ",", 1) + 1, Len(s))

RECURSIVE SeqsUpTo(_, _)
\* every sequence over S of length at most n
SeqsUpTo(S, n) ==
    IF n = 0 THEN {<<>>}
    ELSE LET shorter == SeqsUpTo(S, n - 1)
         IN  shorter \cup {Append(s, c) : s \in shorter, c \in S}

(***************************************************************************)
(* Base64 (base64.b64decode / b64encode of the standard library).          *)
(***************************************************************************)
B64Alphabet ==
    <<"A","B","C","D","E","F","G","H","I","J","K","L","M","N","O","P",
      "Q","R","S","T","U","V","W","X","Y","Z","a","b","c","d","e","f",
      "g","h","i","j","k","l","m","n","o","p","q","r","s","t","u","v",
      "w","x","y","z","0","1","2","3","4","5","6","7","8","9","+","/">>

IsB64Char(c) == \E i \in 1..64 : B64Alphabet[i] = c

B64Value(c) == (CHOOSE i \in 1..64 : B64Alphabet[i] = c) - 1

\* the bytes a group of 2, 3 or 4 six-bit values stands for
QuadBytes(q) ==
    LET b1 == (q[1] * 4 + (q[2] \div 16)) % 256
        b2 == ((q[2] % 16) * 16 + (q[3] \div 4)) % 256
        b3 == ((q[3] % 4) * 64 + q[4]) % 256
    IN  IF Len(q) = 2 THEN <<b1>>
        ELSE IF Len(q) = 3 THEN <<b1, b2>>
        ELSE <<b1, b2, b3>>

RECURSIVE A2B(_, _, _, _, _)
(* binascii.a2b_base64 without strict mode, from position i of s: quad is  *)
(* the group being filled, pads the pad characters seen in a row, out the  *)
(* bytes of the groups completed. Characters outside the alphabet are      *)
(* skipped; a pad sequence that completes a group of 2 or 3 ends the       *)
(* parse; input that ends inside a group is an error.                      *)
A2B(s, i, quad, pads, out) ==
    IF i > Len(s)
    THEN IF quad = <<>> THEN [ok |-> TRUE, bytes |-> out]
         ELSE [ok |-> FALSE, bytes |-> <<>>]
    ELSE IF s[i] = "="
    THEN IF Len(quad) >= 2 /\ Len(quad) + pads + 1 >= 4
         THEN [ok |-> TRUE, bytes |-> out \o QuadBytes(quad)]
         ELSE IF Len(quad) >= 2
              THEN A2B(s, i + 1, quad, pads + 1, out)
              ELSE A2B(s, i + 1, quad, pads, out)
    ELSE IF ~IsB64Char(s[i])
    THEN A2B(s, i + 1, quad, pads, out)
    ELSE LET q == Append(quad, B64Value(s[i]))
         IN  IF Len(q) = 4
             THEN A2B(s, i + 1, <<>>, 0, out \o QuadBytes(q))
             ELSE A2B(s, i + 1, q, 0, out)

\* base64.b64decode(s): [ok, bytes]; ok = FALSE stands for binascii.Error
B64Decode(s) == A2B(s, 1, <<>>, 0, <<>>)

RECURSIVE B64Encode(_)
\* base64.b64encode(b).decode('ascii')
B64Encode(b) ==
    LET ch(v) == B64Alphabet[v + 1]
    IN  IF b = <<>> THEN <<>>
        ELSE IF Len(b) = 1
        THEN <<ch(b[1] \div 4), ch((b[1] % 4) * 16), "=", "=">>
        ELSE IF Len(b) = 2
        THEN <<ch(b[1] \div 4), ch((b[1] % 4) * 16 + (b[2] \div 16)),
               ch((b[2] % 16) * 4), "=">>
        ELSE <<ch(b[1] \div 4), ch((b[1] % 4) * 16 + (b[2] \div 16)),
               ch((b[2] % 16) * 4 + (b[3] \div 64)), ch(b[3] % 64)>>
             \o B64Encode(SubSeq(b, 4, Len(b)))

(***************************************************************************)
(* publish: VisualizationTool.upload_to_gcs and upload_chart_to_gcs.       *)
(***************************************************************************)
DataUriPrefix == <<"d","a","t","a",":","i","m","a","g","e","/","p","n","g",";","b","a","s","e","6","4",",">>
GCS_CHART_BUCKET == <<"c","e","n","s","u","s","_","q","u","e","r","y","_","t","o","o","l","_","p","r","o","j","e","c","t">>
ChartPrefix == <<"c","e","n","s","u","s","_","c","h","a","r","t","s","/">>
PngSuffix == <<".","p","n","g">>
GsScheme == <<"g","s",":","/","/">>
MarkdownOpen == <<"!","[","C","e","n","s","u","s"," ","C","h","a","r","t","]","(">>
MarkdownClose == <<")">>
HexDigits == <<"0","1","2","3","4","5","6","7","8","9","a","b","c","d","e","f">>
ExpirationDefault == 60
UuidDraws == 2       \* distinct values uuid4 may return in the model

\* the arguments the model calls publish with
OtherBucket == <<"b">>
GivenBlob == <<"c",".","p","n","g">>
T_ABC == <<"Q","U","J","D">>
T_AB == <<"Q","U","I">>
T_Bad == <<"Q">>
SampleInputs == {<<>>, T_ABC, T_AB, T_Bad, DataUriPrefix \o T_ABC}

\* a mutant of StripDataUri: the prefix is left in place
StripNothing(s) == s

\* lines 149-150: drop everything up to the first comma, then strip blanks
StripDataUri(s) == IF Contains(s, ",") THEN Strip(AfterFirstComma(s)) ELSE s

\* lines 149-152: the bytes of the input, or a decode error
DecodeInput(s) == B64Decode(StripDataUri(s) \o <<"=", "=">>)

\* uuid.uuid4().hex for the r-th value uuid4 can return: 32 hex digits with
\* the version digit 4 and the variant digit 8
Uuid4Hex(r) ==
    [i \in 1..32 |->
        IF i = 13 THEN "4"
        ELSE IF i = 17 THEN "8"
        ELSE IF i = 32 THEN HexDigits[(r % 16) + 1]
        ELSE IF i = 31 THEN HexDigits[((r \div 16) % 16) + 1]
        ELSE "0"]

\* line 155
GeneratedPath(r) == ChartPrefix \o Uuid4Hex(r) \o PngSuffix

\* a mutant of GcsUri: the bucket and the path are not separated
GcsUriNoSlash(bucket, blob) == GsScheme \o bucket \o blob

\* line 166
GcsUri(bucket, blob) == GsScheme \o bucket \o <<"/">> \o blob

\* line 183
Markdown(u) == MarkdownOpen \o u \o MarkdownClose

\* what blob.generate_signed_url returns when it succeeds
SignedUrl(bucket, blob) ==
    <<"h","t","t","p","s",":","/","/">> \o bucket \o <<"/">> \o blob \o <<"?","s","i","g">>

PubIdle == pc \in {"idle", "returned", "raised"}

\* the locals of a call that starts
PubEnter(b64, bucket, name, how) ==
    /\ PubIdle
    /\ ncalls < MaxCalls
    /\ ncalls' = ncalls + 1
    /\ via' = how
    /\ png_base64' = b64
    /\ bucket_name' = bucket
    /\ blob_arg' = name
    /\ png_bytes' = <<>>
    /\ url' = <<>>
    /\ result' = NoDict
    /\ exc' = "none"
    /\ writes' = 0
    /\ signs' = 0
    /\ signed_ok' = FALSE
    /\ pc' = "decode"
    /\ UNCHANGED gcs
    /\ PubFrame

\* agent.py 41-50: the tool passes None for an empty blob_name
UploadChartToGcs(b64, name) ==
    /\ PubEnter(b64, GCS_CHART_BUCKET, name, "tool")
    /\ blob_name' = IF name # <<>> THEN name ELSE None

\* visualization.py 118-124: a direct call
UploadToGcs(b64, bucket, name) ==
    /\ PubEnter(b64, bucket, name, "direct")
    /\ blob_name' = name

\* a mutant of DecodeStep: a decode error is swallowed and empty bytes go on
DecodeSwallows ==
    /\ pc = "decode"
    /\ png_bytes' = DecodeInput(png_base64).bytes
    /\ pc' = "resolve"
    /\ UNCHANGED <<via, png_base64, bucket_name, blob_arg, blob_name, url, result,
                   exc, gcs, writes, signs, signed_ok, ncalls>>
    /\ PubFrame

\* lines 149-152
DecodeStep ==
    /\ pc = "decode"
    /\ LET d == DecodeInput(png_base64)
       IN  IF d.ok
           THEN /\ png_bytes' = d.bytes
                /\ pc' = "resolve"
                /\ exc' = exc
           ELSE /\ png_bytes' = png_bytes
                /\ pc' = "raised"
                /\ exc' = "decode"
    /\ UNCHANGED <<via, png_base64, bucket_name, blob_arg, blob_name, url, result,
                   gcs, writes, signs, signed_ok, ncalls>>
    /\ PubFrame

\* a mutant of ResolvePath: the URL is signed before the object is written
ResolveThenSign ==
    /\ pc = "resolve"
    /\ \E r \in 0..(UuidDraws - 1) :
          blob_name' = IF blob_name = None THEN GeneratedPath(r) ELSE blob_name
    /\ pc' = "sign"
    /\ UNCHANGED <<via, png_base64, bucket_name, blob_arg, png_bytes, url, result,
                   exc, gcs, writes, signs, signed_ok, ncalls>>
    /\ PubFrame

\* lines 154-155
ResolvePath ==
    /\ pc = "resolve"
    /\ \E r \in 0..(UuidDraws - 1) :
          blob_name' = IF blob_name = None THEN GeneratedPath(r) ELSE blob_name
    /\ pc' = "write"
    /\ UNCHANGED <<via, png_base64, bucket_name, blob_arg, png_bytes, url, result,
                   exc, gcs, writes, signs, signed_ok, ncalls>>
    /\ PubFrame

\* lines 158-164, the write succeeds: the object replaces any of its name
WriteOk ==
    /\ pc = "write"
    /\ gcs' = {o \in gcs : ~(o.bucket = bucket_name /\ o.name = blob_name)}
                \cup {[bucket |-> bucket_name, name |-> blob_name,
                       data |-> png_bytes, content_type |-> "image/png"]}
    /\ writes' = writes + 1
    /\ pc' = "sign"
    /\ UNCHANGED <<via, png_base64, bucket_name, blob_arg, blob_name, png_bytes,
                   url, result, exc, signs, signed_ok, ncalls>>
    /\ PubFrame

\* lines 158-164, the client or the write raises: nothing is stored
WriteFails ==
    /\ pc = "write"
    /\ writes' = writes + 1
    /\ pc' = "raised"
    /\ exc' = "write"
    /\ UNCHANGED <<via, png_base64, bucket_name, blob_arg, blob_name, png_bytes,
                   url, result, gcs, signs, signed_ok, ncalls>>
    /\ PubFrame

\* lines 168-178
SignOk ==
    /\ pc = "sign"
    /\ signs' = signs + 1
    /\ signed_ok' = TRUE
    /\ url' = SignedUrl(bucket_name, blob_name)
    /\ pc' = "compose"
    /\ UNCHANGED <<via, png_base64, bucket_name, blob_arg, blob_name, png_bytes,
                   result, exc, gcs, writes, ncalls>>
    /\ PubFrame

\* a mutant of SignFails: the signing error leaves the call
SignFailsRaises ==
    /\ pc = "sign"
    /\ signs' = signs + 1
    /\ pc' = "raised"
    /\ exc' = "sign"
    /\ UNCHANGED <<via, png_base64, bucket_name, blob_arg, blob_name, png_bytes,
                   url, result, gcs, writes, signed_ok, ncalls>>
    /\ PubFrame

\* lines 168-181, generate_signed_url raises: the except arm empties url
SignFails ==
    /\ pc = "sign"
    /\ signs' = signs + 1
    /\ url' = <<>>
    /\ pc' = "compose"
    /\ UNCHANGED <<via, png_base64, bucket_name, blob_arg, blob_name, png_bytes,
                   result, exc, gcs, writes, signed_ok, ncalls>>
    /\ PubFrame

\* lines 183-191
Compose ==
    /\ pc = "compose"
    /\ result' = [gcs_uri |-> GcsUri(bucket_name, blob_name),
                  url |-> url,
                  markdown |-> Markdown(url),
                  blob_name |-> blob_name,
                  expiration_minutes |-> ExpirationDefault]
    /\ pc' = "returned"
    /\ UNCHANGED <<via, png_base64, bucket_name, blob_arg, blob_name, png_bytes,
                   url, exc, gcs, writes, signs, signed_ok, ncalls>>
    /\ PubFrame

InitPublish ==
    /\ pc = "idle"
    /\ via = "none"
    /\ png_base64 = <<>>
    /\ bucket_name = <<>>
    /\ blob_arg = None
    /\ blob_name = None
    /\ png_bytes = <<>>
    /\ url = <<>>
    /\ result = NoDict
    /\ exc = "none"
    /\ gcs = {}
    /\ writes = 0
    /\ signs = 0
    /\ signed_ok = FALSE
    /\ ncalls = 0

\* the agent calls the upload_chart_to_gcs tool
CallUploadChartToGcs ==
    /\ PubIdle
    /\ \E b64 \in SampleInputs, name \in {<<>>, GivenBlob} : UploadChartToGcs(b64, name)

\* a caller of upload_to_gcs, with the arguments of the model
CallUploadToGcs ==
    /\ PubIdle
    /\ \E b64 \in SampleInputs, bucket \in {GCS_CHART_BUCKET, OtherBucket},
          name \in {None, <<>>, GivenBlob} : UploadToGcs(b64, bucket, name)

NextPublish ==
    \/ CallUploadChartToGcs
    \/ CallUploadToGcs
    \/ DecodeStep
    \/ ResolvePath
    \/ WriteOk
    \/ WriteFails
    \/ SignOk
    \/ SignFails
    \/ Compose

(***************************************************************************)
(* The data-URI relation: one Base64 text decoded as it is and behind the  *)
(* data-URI prefix, each by the code of lines 149-152.                     *)
(***************************************************************************)
TextChars == {"Q", "U", "=", ",", " "}

InitDecode ==
    /\ d_text \in SeqsUpTo(TextChars, MaxLen)
    /\ d_raw = NoDict
    /\ d_uri = NoDict

\* publish called with T
DecodeRaw ==
    /\ d_raw = NoDict
    /\ d_raw' = DecodeInput(d_text)
    /\ UNCHANGED <<d_text, d_uri>>
    /\ DecFrame

\* publish called with "data:image/png;base64," + T
DecodeUri ==
    /\ d_uri = NoDict
    /\ d_uri' = DecodeInput(DataUriPrefix \o d_text)
    /\ UNCHANGED <<d_text, d_raw>>
    /\ DecFrame

NextDecode == DecodeRaw \/ DecodeUri

(***************************************************************************)
(* render: VisualizationTool.plot_from_rows / plot_from_dataframe and the  *)
(* create_chart tool. A row is a record with the columns area and pct.     *)
(***************************************************************************)
AreaNames == <<"A", "B", "C", "D", "E">>
PctValues == {10, 50, 90}
Kinds == {"bar", "line", "scatter", "pie"}
FigWidth == 8
FigHeight == 4
PngSignature == <<137, 80, 78, 71, 13, 10, 26, 10>>

\* the row sets of the model: row i is area AreaNames[i] with some pct
RowSets ==
    UNION {{[i \in 1..n |-> [area |-> AreaNames[i], pct |-> v[i]]] :
               v \in [1..n -> PctValues]} : n \in 0..MaxRows}

\* line 37, pd.DataFrame(rows): the columns are the keys of the records
DataFrame(rows) ==
    [columns |-> IF rows = <<>> THEN {} ELSE DOMAIN rows[1], rows |-> rows]

\* an Optional[int]: the empty set is None, {n} is the number n
NoInt == {}
TopNValues == {NoInt} \cup {{n} : n \in 1..MaxRows}
ValueOf(opt) == CHOOSE n \in opt : TRUE

RemoveAt(q, i) == SubSeq(q, 1, i - 1) \o SubSeq(q, i + 1, Len(q))

\* a mutant of NLargest: the first n rows, unsorted
FirstRows(rows, n, col) == SubSeq(rows, 1, IF n < Len(rows) THEN n ELSE Len(rows))

RECURSIVE NLargest(_, _, _)
\* the rows of df.nlargest(n, col): the n rows with the largest col,
\* descending, rows with equal col in their original order (keep='first')
NLargest(rows, n, col) ==
    IF n <= 0 \/ rows = <<>> THEN <<>>
    ELSE LET top == CHOOSE i \in 1..Len(rows) :
                       /\ \A j \in 1..Len(rows) : rows[j][col] <= rows[i][col]
                       /\ \A j \in 1..(i - 1) : rows[j][col] < rows[i][col]
         IN  <<rows[top]>> \o NLargest(RemoveAt(rows, top), n - 1, col)

\* a mutant of Strategy: an unrecognised kind draws a line plot
StrategyLineFallback(kind) ==
    IF kind = "bar" THEN "barplot"
    ELSE IF kind = "scatter" THEN "scatterplot"
    ELSE "lineplot"

\* lines 77-85: the seaborn function the kind selects
Strategy(kind) ==
    IF kind = "bar" THEN "barplot"
    ELSE IF kind = "line" THEN "lineplot"
    ELSE IF kind = "scatter" THEN "scatterplot"
    ELSE "barplot"

StrategyCode(st) == IF st = "barplot" THEN 1 ELSE IF st = "lineplot" THEN 2 ELSE 3

\* fig.savefig(buf, format='png'): the PNG signature, then the image data
PngOf(drawing) ==
    PngSignature \o <<StrategyCode(drawing.strategy), Len(drawing.rows)>>

RenIdle == rpc = "idle"

\* lines 39-53: plot_from_rows builds the DataFrame and calls
\* plot_from_dataframe
PlotFromRows(rows, x, y, kind, title, top_n) ==
    /\ RenIdle
    /\ nrender < MaxRenders
    /\ nrender' = nrender + 1
    /\ rargs' = [rows |-> rows, x |-> x, y |-> y, kind |-> kind, title |-> title,
                 top_n |-> top_n, rotate_xticks |-> TRUE]
    /\ rdf' = DataFrame(rows)
    /\ rfig' = 0
    /\ rdrawn' = NoDict
    /\ rret' = NoDict
    /\ rpc' = "topn"
    /\ UNCHANGED <<figs, gcf, nextfig, closed_foreign>>
    /\ RenFrame

\* agent.py 34-39: the tool passes no top_n
CreateChart(rows, x, y, kind, title) == PlotFromRows(rows, x, y, kind, title, NoInt)

\* lines 70-71; nlargest raises KeyError for a column the frame does not
\* have
TopN ==
    /\ rpc = "topn"
    /\ IF rargs.top_n # NoInt /\ rargs.x \in rdf.columns
       THEN IF rargs.y \in rdf.columns
            THEN /\ rdf' = [rdf EXCEPT !.rows =
                                NLargest(rdf.rows, ValueOf(rargs.top_n), rargs.y)]
                 /\ rpc' = "open"
            ELSE /\ rdf' = rdf
                 /\ rpc' = "raised"
       ELSE /\ rdf' = rdf
            /\ rpc' = "open"
    /\ UNCHANGED <<rargs, rfig, rdrawn, rret, figs, gcf, nextfig, closed_foreign,
                   nrender>>
    /\ RenFrame

\* lines 74-75: plt.close('all') empties pyplot's registry, plt.subplots
\* registers a new figure and makes it current
OpenFigure ==
    /\ rpc = "open"
    /\ closed_foreign' = (closed_foreign \/ figs # {})
    /\ figs' = {nextfig}
    /\ rfig' = nextfig
    /\ gcf' = nextfig
    /\ nextfig' = nextfig + 1
    /\ rpc' = "draw"
    /\ UNCHANGED <<rargs, rdf, rdrawn, rret, nrender>>
    /\ RenFrame

\* lines 77-91: seaborn raises ValueError for a column the frame does not
\* have; otherwise the strategy draws df on the call's axes
Draw ==
    /\ rpc = "draw"
    /\ IF rargs.x \in rdf.columns /\ rargs.y \in rdf.columns
       THEN /\ rdrawn' = [strategy |-> Strategy(rargs.kind),
                          palette |-> IF rargs.kind = "bar" THEN "viridis" ELSE "default",
                          rows |-> rdf.rows, x |-> rargs.x, y |-> rargs.y,
                          title |-> rargs.title, figure |-> rfig,
                          rotated |-> gcf]
            /\ rpc' = "save"
       ELSE /\ rdrawn' = rdrawn
            /\ rpc' = "raised"
    /\ UNCHANGED <<rargs, rdf, rfig, rret, figs, gcf, nextfig, closed_foreign,
                   nrender>>
    /\ RenFrame

\* lines 93-106: the figure is saved and the dict returned; the figure is
\* not closed
SaveAndReturn ==
    /\ rpc = "save"
    /\ LET png_b64 == B64Encode(PngOf(rdrawn))
       IN  rret' = [png_base64 |-> png_b64,
                    data_uri |-> DataUriPrefix \o png_b64,
                    width |-> FigWidth,
                    height |-> FigHeight,
                    format |-> "png"]
    /\ rpc' = "returned"
    /\ UNCHANGED <<rargs, rdf, rfig, rdrawn, figs, gcf, nextfig, closed_foreign,
                   nrender>>
    /\ RenFrame

\* the call is over: its frame and its locals are gone; what pyplot holds
\* stays
RenderDone ==
    /\ rpc \in {"returned", "raised"}
    /\ rpc' = "idle"
    /\ rargs' = NoDict
    /\ rdf' = DataFrame(<<>>)
    /\ rfig' = 0
    /\ rdrawn' = NoDict
    /\ rret' = NoDict
    /\ UNCHANGED <<figs, gcf, nextfig, closed_foreign, nrender>>
    /\ RenFrame

InitRender ==
    /\ rpc = "idle"
    /\ rargs = NoDict
    /\ rdf = DataFrame(<<>>)
    /\ rfig = 0
    /\ rdrawn = NoDict
    /\ rret = NoDict
    /\ figs = {}
    /\ gcf = 0
    /\ nextfig = 1
    /\ closed_foreign = FALSE
    /\ nrender = 0

\* a caller of plot_from_rows, with the arguments of the model
CallPlotFromRows ==
    /\ RenIdle
    /\ \E rows \in RowSets, x \in {"area", "suburb"}, y \in {"pct", "count"},
          kind \in Kinds, top_n \in TopNValues :
          PlotFromRows(rows, x, y, kind, None, top_n)

\* the agent calls the create_chart tool
CallCreateChart ==
    /\ RenIdle
    /\ \E rows \in RowSets, x \in {"area", "suburb"}, y \in {"pct", "count"},
          kind \in Kinds : CreateChart(rows, x, y, kind, <<>>)

NextRender ==
    \/ CallPlotFromRows
    \/ CallCreateChart
    \/ TopN
    \/ OpenFigure
    \/ Draw
    \/ SaveAndReturn
    \/ RenderDone

(***************************************************************************)
(* The HTTP layer: POST /chat and DELETE /session/{id} of app.py, over the *)
(* session service (a store of sessions by identifier with get, create     *)
(* and delete). Every await of a handler is a point where another request  *)
(* may run.                                                                *)
(***************************************************************************)
Requests == 1..MaxRequests
SessionIds == {"default", "s1"}
Absent == "absent"                \* a key the JSON body does not hold
Messages == {None, <<" ">>, <<"h", "i">>}

\* a session as create_session makes it
FreshSession == [events |-> <<>>]

\* lines 75-81: the body is read; a message that is blank after strip() is
\* answered with 400
ChatReceive(r, message, session_id) ==
    /\ hpc[r] = "new"
    /\ nreq < MaxRequests
    /\ nreq' = nreq + 1
    /\ LET user_message == Strip(IF message = None THEN <<>> ELSE message)
           sid == IF session_id = Absent THEN "default" ELSE session_id
       IN  /\ hreq' = [hreq EXCEPT ![r] =
                          [kind |-> "chat", sid |-> sid, message |-> user_message]]
           /\ hpc' = [hpc EXCEPT ![r] =
                          IF user_message = <<>> THEN "rejected" ELSE "get"]
    /\ UNCHANGED <<sessions, hexisting, hseen, epoch, fresh_since, recreated>>
    /\ HttpFrame

\* lines 84-86: existing = await session_service.get_session(...)
ChatGetSession(r) ==
    /\ hpc[r] = "get"
    /\ hexisting' = [hexisting EXCEPT ![r] = sessions[hreq[r].sid]]
    /\ hpc' = [hpc EXCEPT ![r] = "ensure"]
    /\ UNCHANGED <<sessions, hreq, hseen, epoch, fresh_since, recreated, nreq>>
    /\ HttpFrame

\* lines 88-90: await session_service.create_session(...). The service
\* either stores a new session under the identifier, replacing one that is
\* there, or refuses an identifier that is in use (AlreadyExistsError)
CreateSession(r) ==
    LET sid == hreq[r].sid
    IN  /\ recreated' = (recreated \/ sessions[sid] # NoDict)
        /\ \/ /\ sessions' = [sessions EXCEPT ![sid] = FreshSession]
              /\ fresh_since' = [fresh_since EXCEPT ![sid] = @ + 1]
              /\ hpc' = [hpc EXCEPT ![r] = "run"]
           \/ /\ sessions[sid] # NoDict
              /\ sessions' = sessions
              /\ fresh_since' = fresh_since
              /\ hpc' = [hpc EXCEPT ![r] = "create_failed"]

\* lines 87-90: the session is created if get_session found none
ChatEnsure(r) ==
    /\ hpc[r] = "ensure"
    /\ IF hexisting[r] = NoDict
       THEN CreateSession(r)
       ELSE /\ hpc' = [hpc EXCEPT ![r] = "run"]
            /\ UNCHANGED <<sessions, fresh_since, recreated>>
    /\ UNCHANGED <<hreq, hexisting, hseen, epoch, nreq>>
    /\ HttpFrame

\* lines 92-105: runner.run_async loads the session (ValueError if it is
\* not there), appends the user's message and the agent's reply to it, and
\* the reply is returned
ChatRun(r) ==
    /\ hpc[r] = "run"
    /\ LET sid == hreq[r].sid
       IN  IF sessions[sid] = NoDict
           THEN /\ hpc' = [hpc EXCEPT ![r] = "run_failed"]
                /\ UNCHANGED <<sessions, hseen>>
           ELSE /\ hseen' = [hseen EXCEPT ![r] =
                                [epoch |-> epoch[sid], events |-> sessions[sid].events]]
                /\ sessions' = [sessions EXCEPT ![sid].events =
                                   @ \o <<[request |-> r, epoch |-> epoch[sid]]>>]
                /\ hpc' = [hpc EXCEPT ![r] = "done"]
    /\ UNCHANGED <<hreq, hexisting, epoch, fresh_since, recreated, nreq>>
    /\ HttpFrame

\* a mutant of ClearSession: the session is left in the service
ClearNothing(r, session_id) ==
    /\ hpc[r] = "new"
    /\ nreq < MaxRequests
    /\ nreq' = nreq + 1
    /\ hreq' = [hreq EXCEPT ![r] = [kind |-> "delete", sid |-> session_id, message |-> <<>>]]
    /\ epoch' = [epoch EXCEPT ![session_id] = @ + 1]
    /\ fresh_since' = [fresh_since EXCEPT ![session_id] = 0]
    /\ hpc' = [hpc EXCEPT ![r] = "done"]
    /\ UNCHANGED <<sessions, hexisting, hseen, recreated>>
    /\ HttpFrame

\* lines 108-114: DELETE /session/{session_id}
ClearSession(r, session_id) ==
    /\ hpc[r] = "new"
    /\ nreq < MaxRequests
    /\ nreq' = nreq + 1
    /\ hreq' = [hreq EXCEPT ![r] = [kind |-> "delete", sid |-> session_id, message |-> <<>>]]
    /\ sessions' = [sessions EXCEPT ![session_id] = NoDict]
    /\ epoch' = [epoch EXCEPT ![session_id] = @ + 1]
    /\ fresh_since' = [fresh_since EXCEPT ![session_id] = 0]
    /\ hpc' = [hpc EXCEPT ![r] = "done"]
    /\ UNCHANGED <<hexisting, hseen, recreated>>
    /\ HttpFrame

InitHttp ==
    /\ sessions = [s \in SessionIds |-> NoDict]
    /\ hpc = [r \in Requests |-> "new"]
    /\ hreq = [r \in Requests |-> NoDict]
    /\ hexisting = [r \in Requests |-> NoDict]
    /\ hseen = [r \in Requests |-> NoDict]
    /\ epoch = [s \in SessionIds |-> 0]
    /\ fresh_since = [s \in SessionIds |-> 0]
    /\ recreated = FALSE
    /\ nreq = 0

\* a client posts to /chat
PostChat == \E r \in Requests, m \in Messages, s \in {Absent, "s1"} : ChatReceive(r, m, s)

\* a client sends DELETE /session/{id}
DeleteSession == \E r \in Requests, s \in SessionIds : ClearSession(r, s)

NextHttp ==
    \/ PostChat
    \/ DeleteSession
    \/ \E r \in Requests : ChatGetSession(r)
    \/ \E r \in Requests : ChatEnsure(r)
    \/ \E r \in Requests : ChatRun(r)

(***************************************************************************)
(* Specifications: one per component, the other components at rest.        *)
(***************************************************************************)
InitDecodeIdle ==
    /\ d_text = <<>>
    /\ d_raw = NoDict
    /\ d_uri = NoDict

Init == InitPublish /\ InitDecodeIdle /\ InitRender /\ InitHttp

InitDec == InitPublish /\ InitDecode /\ InitRender /\ InitHttp

\* publish
Next == NextPublish
Spec == Init /\ [][Next]_vars

\* the data-URI relation
SpecDecode == InitDec /\ [][NextDecode]_vars

\* render
SpecRender == Init /\ [][NextRender]_vars

\* the HTTP layer
SpecHttp == Init /\ [][NextHttp]_vars

(***************************************************************************)
(* The claims.                                                             *)
(***************************************************************************)
EmptyMarkdown == <<"!","[","C","e","n","s","u","s"," ","C","h","a","r","t","]","(",")">>

C2_DecodeAndWriteErrorsPropagate ==
    /\ (pc = "raised" => result = NoDict /\ exc \in {"decode", "write"})
    /\ (pc = "raised" /\ exc = "decode" => writes = 0 /\ signs = 0)
    /\ (pc = "raised" /\ exc = "write" => writes = 1 /\ signs = 0)
    /\ (pc = "raised" /\ ncalls = 1 => gcs = {})
    /\ (png_base64 = <<"Q">> /\ pc \notin {"idle", "decode"} =>
          pc = "raised" /\ exc = "decode")
    /\ (pc \in {"resolve", "write", "sign", "compose", "returned"} =>
          B64Decode((IF Contains(png_base64, ",")
                     THEN Strip(AfterFirstComma(png_base64))
                     ELSE png_base64) \o <<"=", "=">>).ok)

\* a second call whose write failed, after a first call stored its object
C2_Witness ==
    /\ pc = "raised"
    /\ exc = "write"
    /\ ncalls = 2
    /\ gcs # {}
    /\ result = NoDict

IsHexDigit(c) ==
    c \in {"0","1","2","3","4","5","6","7","8","9","a","b","c","d","e","f"}

\* "census_charts/<32 hex characters>.png"
IsGeneratedPath(p) ==
    /\ Len(p) = 50
    /\ SubSeq(p, 1, 14) = <<"c","e","n","s","u","s","_","c","h","a","r","t","s","/">>
    /\ \A i \in 15..46 : IsHexDigit(p[i])
    /\ SubSeq(p, 47, 50) = <<".","p","n","g">>

\* the blob_name upload_to_gcs is given: the tool passes None for ""
PassedBlobName ==
    IF via = "tool" /\ blob_arg = <<>> THEN None ELSE blob_arg

\* C4: a call that returns gives gcs_uri = "gs://" + bucket_name + "/" +
\* resolved path, the resolved path being the caller's path if one was
\* given and the generated one otherwise; blob_name is that path, and the
\* bytes were written to it.
C4_GcsUriNamesResolvedPath ==
    pc = "returned" =>
        /\ (PassedBlobName # None => result.blob_name = PassedBlobName)
        /\ (PassedBlobName = None => IsGeneratedPath(result.blob_name))
        /\ result.gcs_uri =
              <<"g","s",":","/","/">> \o bucket_name \o <<"/">> \o result.blob_name
        /\ \E o \in gcs :
              /\ o.bucket = bucket_name
              /\ o.name = result.blob_name
              /\ o.data = png_bytes

\* the tool was called with an empty blob_name and the call returned a
\* generated path
C4_Witness ==
    /\ pc = "returned"
    /\ via = "tool"
    /\ blob_arg = <<>>
    /\ IsGeneratedPath(result.blob_name)
    /\ png_bytes = <<65, 66, 67>>

\* the text after the first comma of s
AfterComma(s) ==
    LET i == CHOOSE k \in 1..Len(s) : s[k] = "," /\ \A j \in 1..(k - 1) : s[j] # ","
    IN  SubSeq(s, i + 1, Len(s))

\* C5: for a Base64 text T without a comma, publish of
\* "data:image/png;base64," + T decodes the bytes that publish of T
\* decodes (or both fail); for a text with a comma, what is decoded is the
\* text after its first comma.
C5_DataUriPrefixIsStripped ==
    /\ (d_raw # NoDict /\ d_uri # NoDict /\ ~Contains(d_text, ",") => d_uri = d_raw)
    /\ (d_raw # NoDict /\ Contains(d_text, ",") =>
          d_raw = B64Decode(AfterComma(d_text) \o <<"=", "=">>))
    /\ (d_uri # NoDict => d_uri = B64Decode(d_text \o <<"=", "=">>))

\* "QUU" decoded to the bytes 65, 69 both ways
C5_Witness ==
    /\ d_text = <<"Q", "U", "U">>
    /\ d_raw = [ok |-> TRUE, bytes |-> <<65, 69>>]
    /\ d_uri = d_raw

\* C6: kind "bar" draws with the bar strategy, "line" with the line
\* strategy, "scatter" with the scatter strategy and any other kind with
\* the bar strategy; a call on a non-empty row set with the fields area and
\* pct never raises, and a result has format "png" and non-empty Base64.
C6_KindSelectsStrategy ==
    /\ (rdrawn # NoDict =>
          rdrawn.strategy =
             CASE rargs.kind = "bar" -> "barplot"
               [] rargs.kind = "line" -> "lineplot"
               [] rargs.kind = "scatter" -> "scatterplot"
               [] OTHER -> "barplot")
    /\ (rpc = "returned" =>
          /\ rdrawn # NoDict
          /\ rret.format = "png"
          /\ rret.png_base64 # <<>>)
    /\ (rpc \notin {"idle"} /\ rargs.rows # <<>> /\ rargs.x = "area" /\ rargs.y = "pct" =>
          rpc # "raised")

\* a call with an unrecognised kind returned a chart drawn as a bar plot
C6_Witness ==
    /\ rpc = "returned"
    /\ rargs.kind = "pie"
    /\ rdrawn.strategy = "barplot"
    /\ rret.format = "png"
    /\ Len(rret.png_base64) > 0

\* C7: with top_n = N on a row set of at least N rows that has the x field,
\* the strategy is given exactly the N rows with the largest y, in
\* descending order of y; without top_n it is given all the rows.
C7_TopNKeepsLargest ==
    rdrawn # NoDict =>
        LET rows == rargs.rows
            passed == rdrawn.rows
        IN  IF rargs.top_n = NoInt
            THEN passed = rows
            ELSE LET n == CHOOSE k \in rargs.top_n : TRUE
                 IN  Len(rows) >= n =>
                        /\ Len(passed) = n
                        /\ \A i, j \in 1..n : i < j => passed[i].pct >= passed[j].pct
                        /\ \A i, j \in 1..n : i # j => passed[i] # passed[j]
                        /\ \A i \in 1..n : \E k \in 1..Len(rows) : rows[k] = passed[i]
                        /\ \A k \in 1..Len(rows) :
                              (\A i \in 1..n : passed[i] # rows[k]) =>
                                  \A i \in 1..n : rows[k].pct <= passed[i].pct

\* rows [{area A, pct 10}, {area B, pct 90}] with top_n = 1 drew exactly
\* [{area B, pct 90}]
C7_Witness ==
    /\ rdrawn # NoDict
    /\ rargs.rows = <<[area |-> "A", pct |-> 10], [area |-> "B", pct |-> 90]>>
    /\ rargs.top_n = {1}
    /\ rdrawn.rows = <<[area |-> "B", pct |-> 90]>>

\* C8: calls share no mutable state: when a render call has returned none
\* of its figures is still open, and no call closes a figure of another.
C8_NoSharedFigureState ==
    /\ (rpc = "returned" => rfig \notin figs)
    /\ ~closed_foreign

\* C9: DELETE /session/{id} removes that session and no other; a session
\* in the service holds only what was added since the last DELETE of its
\* identifier, so a chat after the DELETE finds no session until one is
\* created, the one it creates is new and empty, and its agent run sees
\* nothing from before the DELETE.
C9_DeleteClearsSession ==
    /\ [](\A s \in SessionIds :
            /\ (epoch[s] > 0 /\ fresh_since[s] = 0 => sessions[s] = NoDict)
            /\ (sessions[s] # NoDict =>
                  \A i \in 1..Len(sessions[s].events) :
                      sessions[s].events[i].epoch = epoch[s]))
    /\ [](\A r \in Requests :
            hseen[r] # NoDict =>
               \A i \in 1..Len(hseen[r].events) :
                   hseen[r].events[i].epoch = hseen[r].epoch)
    /\ [][\A s \in SessionIds :
             (epoch'[s] = epoch[s] + 1) =>
                 /\ sessions'[s] = NoDict
                 /\ \A t \in SessionIds \ {s} : sessions'[t] = sessions[t]]_vars
    /\ [][\A r \in Requests :
             (/\ hpc[r] = "ensure" /\ hpc'[r] # "ensure"
              /\ hexisting[r] = NoDict /\ sessions[hreq[r].sid] = NoDict) =>
                 /\ hpc'[r] = "run"
                 /\ sessions'[hreq[r].sid] = [events |-> <<>>]]_vars

\* a chat ran on a session, the session was deleted, and a later chat with
\* the same identifier ran on a new, empty session
C9_Witness ==
    \E r1, r2 \in Requests :
        /\ hpc[r1] = "done" /\ hpc[r2] = "done"
        /\ hreq[r1].kind = "chat" /\ hreq[r2].kind = "chat"
        /\ hreq[r1].sid = hreq[r2].sid
        /\ hseen[r1].epoch = 0
        /\ hseen[r2] = [epoch |-> 1, events |-> <<>>]
        /\ hexisting[r2] = NoDict
        /\ Len(sessions[hreq[r2].sid].events) = 1

\* C10: the ensure step of POST /chat never calls create_session for a
\* session that exists, so a session is not created twice or overwritten,
\* and, deletes aside, every chat with a non-empty message reaches the
\* agent run with its session present.
C10_EnsureIsNoOp ==
    /\ ~recreated
    /\ \A r \in Requests : hpc[r] # "create_failed"
    /\ ((\A s \in SessionIds : epoch[s] = 0) =>
           \A r \in Requests : hpc[r] # "run_failed")

\* the object the running call stores: its bytes under its blob_name
StoredObject ==
    [bucket |-> bucket_name, name |-> blob_name, data |-> png_bytes,
     content_type |-> "image/png"]

\* C11: publish decodes, resolves the path, writes the object and only then
\* signs: no signing is attempted before the write succeeded; a call that
\* returns (also with url "" after a signing failure) has written the
\* decoded bytes exactly once, to the named bucket at the returned
\* blob_name with content type image/png; signing neither undoes nor
\* repeats the write.
C11_WriteOncePrecedesSigning ==
    /\ [](/\ (pc \in {"decode", "resolve", "write"} => writes = 0 /\ signs = 0)
          /\ (pc = "resolve" => png_bytes = DecodeInput(png_base64).bytes)
          /\ (pc = "write" => blob_name # None)
          /\ (pc = "sign" => writes = 1 /\ signs = 0 /\ StoredObject \in gcs)
          /\ (signs > 0 => /\ signs = 1
                           /\ writes = 1
                           /\ pc \in {"compose", "returned"}
                           /\ StoredObject \in gcs)
          /\ (pc = "returned" =>
                /\ writes = 1
                /\ signs = 1
                /\ \E o \in gcs :
                      /\ o.bucket = bucket_name
                      /\ o.name = result.blob_name
                      /\ o.data = B64Decode(StripDataUri(png_base64) \o <<"=", "=">>).bytes
                      /\ o.content_type = "image/png"
                /\ \A o \in gcs :
                      o.bucket = bucket_name /\ o.name = result.blob_name =>
                          o.data = png_bytes))
    /\ [][(pc \in {"sign", "compose"}) => (gcs' = gcs /\ writes' = writes)]_vars
    /\ [][(writes' # writes /\ pc' # "decode") => (pc = "write" /\ writes' = writes + 1)]_vars
    /\ [][(signs' # signs /\ pc' # "decode") => (pc = "sign" /\ signs' = signs + 1)]_vars

\* a second call returned with url "" after its signing failed; its bytes
\* are in the bucket under the returned blob_name
C11_Witness ==
    /\ pc = "returned"
    /\ ncalls = 2
    /\ ~signed_ok
    /\ signs = 1
    /\ writes = 1
    /\ result.url = <<>>
    /\ png_bytes = <<65, 66>>
    /\ [bucket |-> bucket_name, name |-> result.blob_name, data |-> <<65, 66>>,
        content_type |-> "image/png"] \in gcs

====
